---- MODULE Spec2Model ----
(***************************************************************************)
(* A model of piDhtBot (src/piDhtBot.py): the record statistics, the       *)
(* rotating record store and its range query, the DHT polling loop and the *)
(* Telegram command / callback handlers.                                   *)
(*                                                                         *)
(* Time is counted in ticks of 0.2 s (TicksPerSec ticks per second), the   *)
(* granularity of the poller's retry sleep.  Temperatures and humidities   *)
(* are floats of the program: a number (an integer count of hundredths,    *)
(* which '%.2f' writes exactly), NaN, or an infinity.                      *)
(***************************************************************************)
EXTENDS Integers, Sequences, FiniteSets, TLC

VARIABLES
    allRecords,   \* SpecStat: the record set a query accumulates (getRecords)
    shardRecords, \* SpecStat: the record set of the shard being read (readRecords)
    files,        \* the record files: rotation suffix -> sequence of rows
    rolloverDay,  \* the day the current record file belongs to
    clock,        \* wall clock, in ticks
    appended,     \* history: every sample handed to addRecord, with its shard day
    prunedDays,   \* history: the days whose shard rotation has deleted
    corrupted,    \* history: the number of malformed rows written
    query,        \* the last getRecords call: its bounds and its result
    pc,           \* the DHT thread: "idle" (not started), "loop" or "dead"
    nextRead,     \* readDHT: the deadline of the next read
    lastComplain, \* readDHT: the time of the last complaint
    lastRecord,   \* the last record read from the sensor
    warnings,     \* history: the warnings readDHT has logged
    complaints,   \* history: the times of the gap markers the loop has written
    startedAt,    \* history: the time the polling loop started
    stallStart,   \* SpecStall: the time the sensor began to fail, or None
    afterReads,   \* SpecStall: the reads made after the stall
    polls,        \* SpecPoll: the passes of the polling loop made
    updaterRunning, \* updater.running: the gateway's receive loop dispatches events
    plotImage,    \* a file exists at plotImagePath
    menus,        \* the range menus sent (messages with an inline keyboard)
    ev,           \* the handling of the last event: what the handler did
    handled,      \* history: the events dispatched to a handler
    crashes,      \* history: the handler calls that ended in an exception
    dhtDevice,    \* self.dhtDevice: "none" or "open"
    releases,     \* history: the calls of dhtDevice.exit()
    mainPc,       \* the main thread: its position in run / runInternal
    startupTimeout, \* config.json general.startup_timeout
    probeLog,     \* history: the outcomes of the bot.get_me() probes
    startup,      \* how the probing ended: "probing", "ok", "timeout", "unauthorized", "error"
    ownerAt,      \* the index of the owner the main thread's loop is at
    sent,         \* history: the bot.sendMessage calls, with message kind, owner and outcome
    isShuttingDown, \* self.isShuttingDown
    threadStarted, \* dht_thread.start() was called
    sigPc,        \* the running signal handler: "none", "notify" or "exit"
    sigNext,      \* the index of the owner the signal handler's loop is at
    signals,      \* history: the signals delivered
    exitCode,     \* the exit status of the process, None while it runs
    show,         \* a commandShow call in progress: what it has read so far
    resolved,     \* SpecRange: the tokens resolved at the present time, with their ranges
    scan          \* SpecRace: a getRecords call in progress, file by file

statVars == <<allRecords, shardRecords>>
storeVars == <<files, rolloverDay, clock, appended, prunedDays, corrupted, query>>
pollerVars == <<pc, nextRead, lastComplain, lastRecord, warnings, complaints,
                startedAt, stallStart, afterReads, polls, dhtDevice, releases>>

dispatchVars == <<updaterRunning, plotImage, menus, ev, handled, crashes>>

lifeVars == <<mainPc, startupTimeout, probeLog, startup, ownerAt, sent, isShuttingDown,
              threadStarted,
              sigPc, sigNext, signals, exitCode, show, resolved, scan>>

vars == <<statVars, storeVars, pollerVars, dispatchVars, lifeVars>>

-----------------------------------------------------------------------------
(* Floats and timestamps *)

\* Python's None (minTs / maxTs of a fresh recordStat, an absent query bound).
None == -1

Num(n) == [k |-> "num", v |-> n]
NaN == [k |-> "nan", v |-> 0]
PosInf == [k |-> "inf", v |-> 1]
NegInf == [k |-> "inf", v |-> -1]

IsNaN(a) == a.k = "nan"

\* a < b on Python floats: every comparison with NaN is False.
FloatLt(a, b) ==
    CASE IsNaN(a) \/ IsNaN(b) -> FALSE
      [] a = NegInf -> b # NegInf
      [] a = PosInf -> FALSE
      [] b = PosInf -> TRUE
      [] b = NegInf -> FALSE
      [] OTHER -> a.v < b.v

FloatGt(a, b) == FloatLt(b, a)

-----------------------------------------------------------------------------
(* class records.recordStat *)

recordStat == [minTs |-> None, maxTs |-> None, minValue |-> PosInf, maxValue |-> NegInf]

\* A tracker whose comparisons are not strict: a tie replaces the timestamp.
updateWithValueNonStrict(stat, ts, value) ==
    LET s1 == IF ~FloatLt(stat.minValue, value) /\ ~IsNaN(value)
              THEN [stat EXCEPT !.minValue = value, !.minTs = ts] ELSE stat
    IN  IF ~FloatGt(s1.maxValue, value) /\ ~IsNaN(value)
        THEN [s1 EXCEPT !.maxValue = value, !.maxTs = ts] ELSE s1

updateWithValue(stat, ts, value) ==
    LET s1 == IF FloatGt(stat.minValue, value)
              THEN [stat EXCEPT !.minValue = value, !.minTs = ts] ELSE stat
    IN  IF FloatLt(s1.maxValue, value)
        THEN [s1 EXCEPT !.maxValue = value, !.maxTs = ts] ELSE s1

updateWithRecordStat(stat, otherRecordStat) ==
    updateWithValue(
        updateWithValue(stat, otherRecordStat.minTs, otherRecordStat.minValue),
        otherRecordStat.maxTs, otherRecordStat.maxValue)

-----------------------------------------------------------------------------
(* class record, class records *)

record(ts, temp, hum) == [ts |-> ts, temp |-> temp, hum |-> hum]

records == [recordList |-> <<>>, tempStat |-> recordStat, humStat |-> recordStat]

addSingleRecord(rs, otherRecord) ==
    [recordList |-> Append(rs.recordList, otherRecord),
     tempStat |-> updateWithValue(rs.tempStat, otherRecord.ts, otherRecord.temp),
     humStat |-> updateWithValue(rs.humStat, otherRecord.ts, otherRecord.hum)]

addRecordList(rs, otherRecords) ==
    [recordList |-> rs.recordList \o otherRecords.recordList,
     tempStat |-> updateWithRecordStat(rs.tempStat, otherRecords.tempStat),
     humStat |-> updateWithRecordStat(rs.humStat, otherRecords.humStat)]

-----------------------------------------------------------------------------
(* Bounds of the model *)

\* SpecStat: samples fed to the trackers, and the timestamps they may carry.
MaxStatSamples == 3
MaxStatTs == 2

\* Spec: rows written to the record files in a run, and the last day of the run.
MaxRows == 3
MaxDay == 11

\* config.json general.record_days: the backupCount of the record file handler.
RecordDays == 2

-----------------------------------------------------------------------------
(* Time *)

\* One tick is the poller's retry sleep of 0.2 s.
TicksPerSec == 5
TicksPerDay == 24 * 60 * 60 * TicksPerSec

\* The first day of a run.  Days are numbered so that the run crosses from a
\* one-digit to a two-digit day number, as dates cross from ...-09 to ...-10.
StartDay == 9

\* A time step of the store's environment that stays within one second.
SubSecond == 3

DayOf(ts) == ts \div TicksPerDay
SecOfDay(ts) == (ts % TicksPerDay) \div TicksPerSec

-----------------------------------------------------------------------------
(* The record files.  A row is the sequence of whitespace-separated fields  *)
(* of one line.  A field is a float as '%.2f' writes it, a date as          *)
(* '%Y-%m-%d' writes it, a time as '%H:%M:%S' writes it, or other text.     *)

DateField(day) == [k |-> "date", v |-> day]
TimeField(sec) == [k |-> "time", v |-> sec]
TextField == [k |-> "text", v |-> 0]

\* The rotation suffix of a day: the zero-padded date, as a digit string.
DateStr(day) == <<day \div 10, day % 10>>

\* The suffix of the current record file (botName + '.rec', nothing appended).
recordBaseName == <<>>

\* dateTimeFormat, written: strftime drops the sub-second part.
strftime(ts) == <<DateField(DayOf(ts)), TimeField(SecOfDay(ts))>>

\* dateTimeFormat, read: strptime fails (None) on anything but a date and a time.
strptime(date, time) ==
    IF date.k = "date" /\ time.k = "time"
    THEN date.v * TicksPerDay + time.v * TicksPerSec
    ELSE None

\* float(field): fails (None) on text that is no float literal.
IsFloatText(field) == field.k \in {"num", "nan", "inf"}

\* String comparison of two file name suffixes, as list.sort() compares names.
RECURSIVE LexLess(_, _)
LexLess(a, b) ==
    IF a = <<>> THEN b # <<>>
    ELSE IF b = <<>> THEN FALSE
    ELSE IF a[1] # b[1] THEN a[1] < b[1]
    ELSE LexLess(Tail(a), Tail(b))

RECURSIVE SortNames(_)
SortNames(S) ==
    IF S = {} THEN <<>>
    ELSE LET m == CHOOSE x \in S : \A y \in S \ {x} : LexLess(x, y)
         IN  <<m>> \o SortNames(S \ {m})

RotatedNames(fs) == DOMAIN fs \ {recordBaseName}

\* The shards beyond backupCount, oldest first (getFilesToDelete of the handler).
FilesToDelete(fs) ==
    LET sorted == SortNames(RotatedNames(fs))
    IN  IF RecordDays > 0 /\ Len(sorted) > RecordDays
        THEN {sorted[i] : i \in 1..(Len(sorted) - RecordDays)}
        ELSE {}

\* doRollover of the record file handler (when='midnight'): the current file
\* takes the date of the day it was written on, the oldest shards beyond
\* backupCount are deleted, and a new current file is opened.
doRollover(fs, day) ==
    LET renamed == [n \in (DOMAIN fs \ {recordBaseName}) \cup {DateStr(day)} |->
                        IF n = DateStr(day) THEN fs[recordBaseName] ELSE fs[n]]
        kept == [n \in DOMAIN renamed \ FilesToDelete(renamed) |-> renamed[n]]
    IN  [n \in DOMAIN kept \cup {recordBaseName} |->
            IF n = recordBaseName THEN <<>> ELSE kept[n]]

shouldRollover(rday, now) == DayOf(now) > rday

\* The files after self.recorder.info(line) at time now: the handler rolls the
\* files over first when midnight has passed since the rollover day rday.
Emit(fs, rday, now, row) ==
    LET cur == IF shouldRollover(rday, now) THEN doRollover(fs, rday) ELSE fs
    IN  [cur EXCEPT ![recordBaseName] = Append(@, row)]

\* addRecord: the line '%s %.2f %.2f' % (ts, temp, hum), split into its fields.
RecordLine(rec) == strftime(rec.ts) \o <<rec.temp, rec.hum>>

DaysOf(names) == {d \in (StartDay - 1)..(MaxDay + 1) : DateStr(d) \in names}

\* The record files with the handler's rollover day and the history of the store.
TheStore ==
    [files |-> files, rolloverDay |-> rolloverDay,
     appended |-> appended, prunedDays |-> prunedDays]

\* A recorder that opens the record file for writing, not for appending: the
\* row replaces what the file held.
addRecordTruncating(st, now, rec) ==
    LET cur == IF shouldRollover(st.rolloverDay, now)
               THEN doRollover(st.files, st.rolloverDay) ELSE st.files
        rday == IF shouldRollover(st.rolloverDay, now) THEN DayOf(now) ELSE st.rolloverDay
    IN  [files |-> [cur EXCEPT ![recordBaseName] = <<RecordLine(rec)>>],
         rolloverDay |-> rday,
         appended |-> Append(st.appended, [rec |-> rec, day |-> rday]),
         prunedDays |-> st.prunedDays \cup DaysOf(DOMAIN st.files \ DOMAIN cur)]

\* The store after addRecord(rec), called at time now.
addRecord(st, now, rec) ==
    LET fs == Emit(st.files, st.rolloverDay, now, RecordLine(rec))
        rday == IF shouldRollover(st.rolloverDay, now) THEN DayOf(now) ELSE st.rolloverDay
    IN  [files |-> fs, rolloverDay |-> rday,
         appended |-> Append(st.appended, [rec |-> rec, day |-> rday]),
         prunedDays |-> st.prunedDays \cup DaysOf(DOMAIN st.files \ DOMAIN fs)]

SetStore(st) ==
    /\ files' = st.files
    /\ rolloverDay' = st.rolloverDay
    /\ appended' = st.appended
    /\ prunedDays' = st.prunedDays

-----------------------------------------------------------------------------
(* listRecordFiles, readRecords, getRecords *)

\* A listing that sorts the current file with the others.
listRecordFilesSortAll(fs) == SortNames(DOMAIN fs)

listRecordFiles(fs) == SortNames(RotatedNames(fs)) \o <<recordBaseName>>

\* A range filter whose bounds are exclusive.
ParseLineExclusive(row, dateStart, dateEnd) ==
    IF Len(row) # 4 THEN "error"
    ELSE LET ts == strptime(row[1], row[2])
         IN  IF ts = None THEN "error"
             ELSE IF dateStart # None /\ ts <= dateStart THEN "skip"
             ELSE IF dateEnd # None /\ ts >= dateEnd THEN "skip"
             ELSE IF ~IsFloatText(row[3]) \/ ~IsFloatText(row[4]) THEN "error"
             ELSE "ok"

\* The try block of readRecords for one line: "error" (the except branch),
\* "skip" (a continue of the range filter) or the record parsed.
ParseLine(row, dateStart, dateEnd) ==
    IF Len(row) # 4 THEN "error"
    ELSE LET ts == strptime(row[1], row[2])
         IN  IF ts = None THEN "error"
             ELSE IF dateStart # None /\ ts < dateStart THEN "skip"
             ELSE IF dateEnd # None /\ ts > dateEnd THEN "skip"
             ELSE IF ~IsFloatText(row[3]) \/ ~IsFloatText(row[4]) THEN "error"
             ELSE "ok"

\* A reader that a line it cannot parse stops: the rest of the file is not read.
RECURSIVE readLinesStopOnError(_, _, _, _)
readLinesStopOnError(rs, rows, dateStart, dateEnd) ==
    IF rows = <<>> THEN rs
    ELSE LET row == Head(rows)
             res == ParseLine(row, dateStart, dateEnd)
         IN  IF res = "error" THEN rs
             ELSE readLinesStopOnError(
                      IF res = "ok"
                      THEN addSingleRecord(rs,
                               record(strptime(row[1], row[2]), row[3], row[4]))
                      ELSE rs,
                      Tail(rows), dateStart, dateEnd)

RECURSIVE readLines(_, _, _, _)
readLines(rs, rows, dateStart, dateEnd) ==
    IF rows = <<>> THEN rs
    ELSE LET row == Head(rows)
             next == IF ParseLine(row, dateStart, dateEnd) = "ok"
                     THEN addSingleRecord(rs,
                              record(strptime(row[1], row[2]), row[3], row[4]))
                     ELSE rs
         IN  readLines(next, Tail(rows), dateStart, dateEnd)

readRecords(fs, fileName, dateStart, dateEnd) ==
    readLines(records, fs[fileName], dateStart, dateEnd)

RECURSIVE getRecordsFrom(_, _, _, _, _)
getRecordsFrom(all, fs, names, dateStart, dateEnd) ==
    IF names = <<>> THEN all
    ELSE LET recs == readRecords(fs, Head(names), dateStart, dateEnd)
             next == IF Len(recs.recordList) = 0 THEN all
                     ELSE addRecordList(all, recs)
         IN  getRecordsFrom(next, fs, Tail(names), dateStart, dateEnd)

getRecords(fs, dateStart, dateEnd) ==
    getRecordsFrom(records, fs, listRecordFiles(fs), dateStart, dateEnd)

\* The lines of a file that end in the except branch (one log entry each).
RECURSIVE parseErrors(_, _, _)
parseErrors(rows, dateStart, dateEnd) ==
    IF rows = <<>> THEN 0
    ELSE (IF ParseLine(Head(rows), dateStart, dateEnd) = "error" THEN 1 ELSE 0)
         + parseErrors(Tail(rows), dateStart, dateEnd)

RECURSIVE loggedErrors(_, _, _, _)
loggedErrors(fs, names, dateStart, dateEnd) ==
    IF names = <<>> THEN 0
    ELSE parseErrors(fs[Head(names)], dateStart, dateEnd)
         + loggedErrors(fs, Tail(names), dateStart, dateEnd)

-----------------------------------------------------------------------------
(* SpecStat: the statistics of class records, driven as getRecords drives   *)
(* them: samples go into the record set of a shard one by one, and a        *)
(* non-empty shard is merged into the accumulated record set.               *)

StatReadings == {<<NaN, NaN>>, <<Num(1), Num(2)>>, <<Num(2), Num(1)>>, <<Num(1), Num(1)>>}

StatSamples == Len(allRecords.recordList) + Len(shardRecords.recordList)

NoQuery == [called |-> FALSE, dateStart |-> None, dateEnd |-> None,
            listed |-> <<>>, result |-> records, errors |-> 0]

\* The sample an earlier run has left in the shard of the day before the run.
OldSample == record((StartDay - 1) * TicksPerDay + SubSecond, Num(1), Num(2))

\* The start of a run: the shard of the day before, and an empty current file.
StoreIdle ==
    /\ files = (DateStr(StartDay - 1) :> <<RecordLine(OldSample)>>) @@ (recordBaseName :> <<>>)
    /\ rolloverDay = StartDay
    /\ clock = StartDay * TicksPerDay
    /\ appended = <<[rec |-> OldSample, day |-> StartDay - 1]>>
    /\ prunedDays = {}
    /\ corrupted = 0
    /\ query = NoQuery

\* No record yet: lastRecord is None.
NoRecord == record(None, NaN, NaN)

\* The DHT thread before it is started.
PollerIdle ==
    /\ pc = "idle"
    /\ nextRead = None
    /\ lastComplain = None
    /\ lastRecord = NoRecord
    /\ warnings = 0
    /\ complaints = <<>>
    /\ startedAt = None
    /\ stallStart = None
    /\ afterReads = 0
    /\ polls = 0
    /\ dhtDevice = "none"
    /\ releases = 0

\* No event handled yet.
NoEvent ==
    [kind |-> "none", sender |-> 0, data |-> "", failAt |-> "none", replies |-> <<>>,
     readLast |-> FALSE, shown |-> record(None, NaN, NaN),
     answered |-> FALSE, queried |-> FALSE, rendered |-> FALSE,
     image |-> FALSE, raised |-> FALSE, calls |-> <<>>]

\* The handlers before any event: the updater is not polling yet.
DispatchIdle ==
    /\ updaterRunning = FALSE
    /\ plotImage = FALSE
    /\ menus = 0
    /\ ev = NoEvent
    /\ handled = 0
    /\ crashes = 0

\* No /show in progress.
\* No query is in progress.
NoScan == [pc |-> "idle", listed |-> <<>>, at |-> 1, all |-> records,
           before |-> <<>>, upTo |-> 0]

NoShow == [pc |-> "idle", seen |-> NoRecord]

\* The main thread at the call of run(), without a pending signal.
LifeIdle ==
    /\ mainPc = "run"
    /\ startupTimeout = 0
    /\ probeLog = <<>>
    /\ startup = "probing"
    /\ ownerAt = 1
    /\ sent = <<>>
    /\ isShuttingDown = FALSE
    /\ threadStarted = FALSE
    /\ sigPc = "none"
    /\ sigNext = 1
    /\ signals = 0
    /\ exitCode = None
    /\ show = NoShow
    /\ resolved = {}
    /\ scan = NoScan

StatIdle ==
    /\ allRecords = records
    /\ shardRecords = records

StatAddSingleRecord(ts, temp, hum) ==
    /\ StatSamples < MaxStatSamples
    /\ shardRecords' = addSingleRecord(shardRecords, record(ts, temp, hum))
    /\ UNCHANGED <<allRecords, storeVars, pollerVars, dispatchVars, lifeVars>>

StatAddRecordList ==
    /\ Len(shardRecords.recordList) # 0
    /\ allRecords' = addRecordList(allRecords, shardRecords)
    /\ shardRecords' = records
    /\ UNCHANGED <<storeVars, pollerVars, dispatchVars, lifeVars>>

InitStat == StatIdle /\ StoreIdle /\ PollerIdle /\ DispatchIdle /\ LifeIdle

NextStat ==
    \/ \E ts \in 1..MaxStatTs, r \in StatReadings : StatAddSingleRecord(ts, r[1], r[2])
    \/ StatAddRecordList

SpecStat == InitStat /\ [][NextStat]_vars

-----------------------------------------------------------------------------
(* Spec: the record store.  The poller appends samples (addRecord), the     *)
(* handler rotates the files at the first append after midnight, rows that  *)
(* do not parse get into the current file, and queries read the files.      *)

NextMidnight(now) == (DayOf(now) + 1) * TicksPerDay

\* What a sample may hold: a gap marker or a reading of the sensor.
Readings == {<<NaN, NaN>>, <<Num(1), Num(2)>>, <<Num(2), Num(1)>>}

\* The rows written in this run.
RowsWritten == Len(appended) - 1 + corrupted

\* Time passes until now, then addRecord(record(now, temp, hum)).
AddRecord(now, temp, hum) ==
    /\ RowsWritten < MaxRows
    /\ DayOf(now) <= MaxDay
    /\ clock' = now
    /\ SetStore(addRecord(TheStore, now, record(now, temp, hum)))
    /\ query' = NoQuery
    /\ UNCHANGED <<corrupted, statVars, pollerVars, dispatchVars, lifeVars>>

\* Rows that readRecords cannot parse: a line cut short, a field that is no
\* number, a timestamp that is no date.
MalformedRows(now) ==
    LET good == RecordLine(record(now, Num(1), Num(1)))
    IN  { SubSeq(good, 1, 3),
          [good EXCEPT ![3] = TextField],
          [good EXCEPT ![4] = TextField],
          [good EXCEPT ![1] = TextField] }

\* A malformed row gets into the current file.
Corrupt(row) ==
    /\ RowsWritten < MaxRows
    /\ corrupted' = corrupted + 1
    /\ files' = [files EXCEPT ![recordBaseName] = Append(@, row)]
    /\ query' = NoQuery
    /\ UNCHANGED <<rolloverDay, clock, appended, prunedDays, statVars, pollerVars,
                   dispatchVars, lifeVars>>

\* The bounds a query may carry.
QueryBounds == {None, (StartDay + 1) * TicksPerDay, (StartDay + 1) * TicksPerDay + SubSecond}

GetRecords(dateStart, dateEnd) ==
    /\ query' = [called |-> TRUE, dateStart |-> dateStart, dateEnd |-> dateEnd,
                 listed |-> listRecordFiles(files),
                 result |-> getRecords(files, dateStart, dateEnd),
                 errors |-> loggedErrors(files, listRecordFiles(files), dateStart, dateEnd)]
    /\ UNCHANGED <<files, rolloverDay, clock, appended, prunedDays, corrupted,
                   statVars, pollerVars, dispatchVars, lifeVars>>

Init == StatIdle /\ StoreIdle /\ PollerIdle /\ DispatchIdle /\ LifeIdle

Next ==
    \/ \E now \in {clock + SubSecond, NextMidnight(clock)}, r \in Readings :
          AddRecord(now, r[1], r[2])
    \/ \E row \in MalformedRows(clock) : Corrupt(row)
    \/ \E dateStart \in QueryBounds, dateEnd \in QueryBounds : GetRecords(dateStart, dateEnd)

Spec == Init /\ [][Next]_vars

-----------------------------------------------------------------------------
(* readDHT: the polling loop.  One action is one pass of the while loop.    *)

\* readInterval = max(2.0, read_interval) for read_interval <= 2.0, in ticks.
ReadInterval == 10

\* time.sleep(0.2) after a failed read, in ticks.
RetrySleep == 1

\* 60 * 5 seconds between two complaints, in ticks.
ComplainTicks == 60 * 5 * TicksPerSec

\* A complaint for every overdue read: the rate limit is missing.
ShouldComplainNoLimit(now, nr, lc) == now > nr + ReadInterval

\* The condition of the complaint at the top of the loop.
\* A rate limit that lets a complaint through five minutes after the last
\* one to the tick.
OverComplainLimitInclusive(now, lc) == now - lc >= ComplainTicks

\* (now - lastComplain).total_seconds() > 60 * 5
OverComplainLimit(now, lc) == now - lc > ComplainTicks

ShouldComplain(now, nr, lc) ==
    now > nr + ReadInterval /\ OverComplainLimit(now, lc)

\* A deadline counted from the end of the read: it drifts with every read.
NextDeadlineFromNow(now, nr) == now + ReadInterval

\* nextRead += datetime.timedelta(seconds=readInterval), with now the time
\* after the read
NextDeadline(now, nr) == nr + ReadInterval

\* if now < nextRead: time.sleep((nextRead - now).total_seconds()); the time
\* the pass ends
SleepUntil(now, nr) == IF now < nr THEN nr ELSE now

\* The set-up of readDHT: the sensor is created, the start-up gap marker is
\* written and the loop starts with nextRead = lastComplain = now.
ReadDHTStart ==
    /\ pc = "idle"
    /\ pc' = "loop"
    /\ dhtDevice' = "open"
    /\ SetStore(addRecord(TheStore, clock, record(clock, NaN, NaN)))
    /\ nextRead' = clock
    /\ lastComplain' = clock
    /\ startedAt' = clock
    /\ query' = NoQuery
    /\ UNCHANGED <<clock, corrupted, lastRecord, warnings, complaints,
                   stallStart, afterReads, polls, releases, statVars, dispatchVars, lifeVars>>

\* One pass of the loop.  The read takes d ticks and ends as outcome says:
\* "RuntimeError", "incomplete" (temp or hum is None), "fatal" (any other
\* exception) or "ok" with the values temp and hum.
PollIteration(outcome, temp, hum, d) ==
    /\ pc = "loop"
    /\ LET now == clock
           complain == ShouldComplain(now, nextRead, lastComplain)
           st1 == IF complain THEN addRecord(TheStore, now, record(now, NaN, NaN))
                  ELSE TheStore
           after == clock + d
       IN  /\ lastComplain' = IF complain THEN now ELSE lastComplain
           /\ warnings' = IF complain THEN warnings + 1 ELSE warnings
           /\ complaints' = IF complain THEN Append(complaints, now) ELSE complaints
           /\ CASE outcome \in {"RuntimeError", "incomplete"} ->
                     /\ SetStore(st1)
                     /\ clock' = after + RetrySleep
                     /\ UNCHANGED <<pc, nextRead, lastRecord, releases>>
                [] outcome = "fatal" ->
                     /\ SetStore(st1)
                     /\ clock' = after
                     /\ pc' = "dead"
                     /\ releases' = releases + 1
                     /\ UNCHANGED <<nextRead, lastRecord>>
                [] outcome = "ok" ->
                     /\ lastRecord' = record(now, temp, hum)
                     /\ SetStore(addRecord(st1, after, record(now, temp, hum)))
                     /\ nextRead' = NextDeadline(after, nextRead)
                     /\ clock' = SleepUntil(after, nextRead')
                     /\ UNCHANGED <<pc, releases>>
    /\ query' = NoQuery
    /\ UNCHANGED <<corrupted, startedAt, dhtDevice, statVars, dispatchVars, lifeVars>>

-----------------------------------------------------------------------------
(* SpecStall: reads are on time, then every read fails for ten minutes,     *)
(* then reads succeed again.                                                *)

\* The ten minutes of the stall.
StallTicks == 10 * 60 * TicksPerSec

\* When the stall may begin, counted from the start of the loop.
StallStarts == {0, ReadInterval, ComplainTicks - ReadInterval, ComplainTicks,
                ComplainTicks + ReadInterval}

\* The longest a read of the sensor takes, in ticks.
MaxReadTicks == 1

\* The reads made after the stall.
MaxAfterReads == 2

\* What the sensor reads in this scenario.
StallReading == <<Num(1), Num(2)>>

InStall == stallStart # None /\ clock < stallStart + StallTicks
StallOver == stallStart # None /\ clock >= stallStart + StallTicks

StallBegin ==
    /\ pc = "loop"
    /\ stallStart = None
    /\ (clock - startedAt) \in StallStarts
    /\ stallStart' = clock
    /\ UNCHANGED <<pc, nextRead, lastComplain, lastRecord, warnings, complaints,
                   startedAt, afterReads, polls, dhtDevice, releases, statVars, storeVars,
                   dispatchVars, lifeVars>>

ReadOnTime(d) ==
    /\ stallStart = None
    /\ \E s \in StallStarts : clock - startedAt < s
    /\ PollIteration("ok", StallReading[1], StallReading[2], d)
    /\ UNCHANGED <<stallStart, afterReads, polls>>

ReadFails(outcome, d) ==
    /\ InStall
    /\ PollIteration(outcome, NaN, NaN, d)
    /\ UNCHANGED <<stallStart, afterReads, polls>>

ReadAfterStall(d) ==
    /\ StallOver
    /\ afterReads < MaxAfterReads
    /\ afterReads' = afterReads + 1
    /\ PollIteration("ok", StallReading[1], StallReading[2], d)
    /\ UNCHANGED <<stallStart, polls>>

InitStall == StatIdle /\ StoreIdle /\ PollerIdle /\ DispatchIdle /\ LifeIdle

NextStall ==
    \/ ReadDHTStart
    \/ StallBegin
    \/ \E d \in 0..MaxReadTicks : ReadOnTime(d)
    \/ \E d \in 0..MaxReadTicks, o \in {"RuntimeError", "incomplete"} : ReadFails(o, d)
    \/ \E d \in 0..MaxReadTicks : ReadAfterStall(d)

SpecStall == InitStall /\ [][NextStall]_vars

-----------------------------------------------------------------------------
(* SpecPoll: one run of the polling loop under every pattern of successful  *)
(* reads, transient failures, incomplete reads and blocking reads, while a  *)
(* handler queries the store.                                               *)

\* The passes of the loop in a run.
MaxPolls == 4

\* How long a read of the sensor may take: no time, a read that overshoots the
\* read interval, and reads that block for as long as the complaint limit.
ReadDurations == {0, ReadInterval + 2, ComplainTicks - RetrySleep, ComplainTicks}

\* How a read of the sensor may end.
ReadOutcomes == {"ok", "RuntimeError", "incomplete", "fatal"}

\* What the sensor reads in this scenario.
PollReading == <<Num(2), Num(1)>>

\* One pass of the while loop of readDHT.
PollPass(outcome, d) ==
    /\ polls < MaxPolls
    /\ polls' = polls + 1
    /\ PollIteration(outcome, PollReading[1], PollReading[2], d)
    /\ UNCHANGED <<stallStart, afterReads>>

InitPoll == StatIdle /\ StoreIdle /\ PollerIdle /\ DispatchIdle /\ LifeIdle

NextPoll ==
    \/ ReadDHTStart
    \/ \E o \in ReadOutcomes, d \in ReadDurations : PollPass(o, d)
    \/ GetRecords(None, None)

SpecPoll == InitPoll /\ [][NextPoll]_vars

-----------------------------------------------------------------------------
(* SpecRace: getRecords runs in a handler thread while the polling thread   *)
(* appends to the store.  The query lists the files, then opens and reads   *)
(* them one by one; an append, with the rotation it may cause, can fall     *)
(* between any two of these steps.  A file is read in one step: once it is  *)
(* open, renaming or removing it does not disturb the reader.               *)

\* for recordFile in self.listRecordFiles(): the names are listed once.
GetRecordsList ==
    /\ scan.pc = "idle"
    /\ scan' = [pc |-> "reading", listed |-> listRecordFiles(files), at |-> 1,
                all |-> records, before |-> files, upTo |-> Len(appended)]
    /\ UNCHANGED <<storeVars, statVars, pollerVars, dispatchVars,
                   mainPc, startupTimeout, probeLog, startup, ownerAt, sent,
                   isShuttingDown, threadStarted, sigPc, sigNext, signals,
                   exitCode, show, resolved>>

\* One pass of the loop of getRecords: readRecords opens the next listed file;
\* open() raises when the file is gone, and nothing catches the exception.
GetRecordsRead ==
    /\ scan.pc = "reading"
    /\ LET fileName == scan.listed[scan.at]
       IN  IF fileName \notin DOMAIN files
           THEN scan' = [scan EXCEPT !.pc = "raised"]
           ELSE LET recs == readRecords(files, fileName, None, None)
                IN  scan' = [scan EXCEPT
                        !.all = IF Len(recs.recordList) = 0 THEN @
                                ELSE addRecordList(@, recs),
                        !.at = @ + 1,
                        !.pc = IF scan.at = Len(scan.listed) THEN "done" ELSE "reading"]
    /\ UNCHANGED <<storeVars, statVars, pollerVars, dispatchVars,
                   mainPc, startupTimeout, probeLog, startup, ownerAt, sent,
                   isShuttingDown, threadStarted, sigPc, sigNext, signals,
                   exitCode, show, resolved>>

InitRace == StatIdle /\ StoreIdle /\ PollerIdle /\ DispatchIdle /\ LifeIdle

NextRace ==
    \/ \E now \in {clock + SubSecond, NextMidnight(clock)}, r \in Readings :
          AddRecord(now, r[1], r[2])
    \/ GetRecordsList
    \/ GetRecordsRead

SpecRace == InitRace /\ [][NextRace]_vars

-----------------------------------------------------------------------------
(* performCommand, plotCallback, plot: the handlers of the dispatcher.  A   *)
(* handler call is one action.  Every call of the gateway, the store and    *)
(* the chart library may raise; failAt names the call that does, and the    *)
(* handlers have no except clause, so the exception leaves the handler.     *)

\* config.json telegram.owner_ids, and the users that send events.
OwnerList == <<1, 3>>
OwnerIds == {OwnerList[i] : i \in 1..Len(OwnerList)}
Senders == {1, 2}

\* A reply_text / reply_photo call with its text; delivered unless it raised.
Reply(text, ok) == [text |-> text, delivered |-> ok]

\* The handler stops with an exception raised by the call step.
Raise(out, step) == [out EXCEPT !.raised = TRUE, !.failAt = step]

\* A text as the user types it: a lower-case word, whether it is typed in
\* capitals, and the blanks before and after it.
Text(word, capitals, before, after) ==
    [word |-> word, capitals |-> capitals, before |-> before, after |-> after]

\* update.message.text.lower().rstrip()
LowerRstrip(text) == [text EXCEPT !.capitals = FALSE, !.after = 0]

\* The literal a command is compared with.
Command(word) == Text(word, FALSE, 0, 0)

commandHelp(out, fail) == [out EXCEPT !.replies = Append(@, Reply("help", ~fail))]

commandShow(out, fail) ==
    IF lastRecord = NoRecord
    THEN [out EXCEPT !.readLast = TRUE, !.replies = Append(@, Reply("No data yet.", ~fail))]
    ELSE [out EXCEPT !.readLast = TRUE, !.shown = lastRecord,
                     !.replies = Append(@, Reply("record", ~fail))]

commandPlot(out, fail) == [out EXCEPT !.replies = Append(@, Reply("menu", ~fail))]

\* The command of an owner or of anyone else is carried out after the refusal.
performCommandNoReturn(sender, text, fail) ==
    LET out == [NoEvent EXCEPT !.kind = "text", !.sender = sender, !.data = text.word,
                               !.image = plotImage]
        cmd == LowerRstrip(text)
        refused == IF sender \notin OwnerIds
                   THEN [out EXCEPT !.replies = <<Reply("refusal", TRUE)>>] ELSE out
        done == CASE cmd = Command("/start") -> commandHelp(refused, fail)
                  [] cmd = Command("/show") -> commandShow(refused, fail)
                  [] cmd = Command("/plot") -> commandPlot(refused, fail)
                  [] cmd = Command("/help") -> commandHelp(refused, fail)
                  [] OTHER -> [refused EXCEPT !.replies = Append(@, Reply("Unknown command.", ~fail))]
        called == [done EXCEPT !.calls = [i \in 1..Len(done.replies) |-> "reply_text"]]
    IN  IF fail THEN Raise(called, "reply") ELSE called

\* performCommand for a message of sender with the given text; fail says that
\* the one reply_text call of the handler raises.
performCommand(sender, text, fail) ==
    LET out == [NoEvent EXCEPT !.kind = "text", !.sender = sender, !.data = text.word,
                               !.image = plotImage]
        cmd == LowerRstrip(text)
        done == IF sender \notin OwnerIds
                THEN [out EXCEPT !.replies = <<Reply("refusal", ~fail)>>]
                ELSE CASE cmd = Command("/start") -> commandHelp(out, fail)
                       [] cmd = Command("/show") -> commandShow(out, fail)
                       [] cmd = Command("/plot") -> commandPlot(out, fail)
                       [] cmd = Command("/help") -> commandHelp(out, fail)
                       [] OTHER -> [out EXCEPT !.replies = Append(@, Reply("Unknown command.", ~fail))]
        called == [done EXCEPT !.calls = [i \in 1..Len(done.replies) |-> "reply_text"]]
    IN  IF fail THEN Raise(called, "reply") ELSE called

TicksPerHour == 60 * 60 * TicksPerSec

\* int(hours.group(1)) for the tokens that match '^([0-9]+)h$', else None.
HoursOf(data) ==
    CASE data = "1h" -> 1 [] data = "3h" -> 3 [] data = "6h" -> 6
      [] data = "12h" -> 12 [] data = "24h" -> 24 [] data = "48h" -> 48
      [] OTHER -> None

\* int(days.group(1)) for the tokens that match '^last ([0-9]+)d$', else None.
LastDaysOf(data) ==
    CASE data = "last 3d" -> 3 [] data = "last 7d" -> 7
      [] data = "last 31d" -> 31 [] data = "last 365d" -> 365
      [] OTHER -> None

\* datetime.timedelta(microseconds=1): the smallest step of a datetime, one
\* tick of the model.
Microsecond == 1

\* The calendar of the model: day 0 is Monday the 1st of January, the month
\* before it has 31 days and the year before it 365 (as 2024-01-01 is).  It
\* tells the dates of the days of that January and of the December before.
DaysInDecember == 31
DaysInLastYear == 365

\* now.replace(hour=0, minute=0, second=0, microsecond=0)
TodayStart(now) == now - (now % TicksPerDay)

\* now.isoweekday(): Monday is 1.
IsoWeekday(now) == ((now \div TicksPerDay) % 7) + 1

\* now.weekday(): Monday is 0.
Weekday(now) == (now \div TicksPerDay) % 7

\* t.day, the day of the month.
DayOfMonth(t) ==
    LET d == t \div TicksPerDay IN IF d >= 0 THEN d + 1 ELSE d + DaysInDecember + 1

Known(dateStart, dateEnd) == [known |-> TRUE, dateStart |-> dateStart, dateEnd |-> dateEnd]

\* The range plotCallback passes to plot for the token data at the time now,
\* a time of the January of the calendar.
Resolve(data, now) ==
    LET todayStart == TodayStart(now)
        lastMonthDay == todayStart - DayOfMonth(todayStart) * TicksPerDay
    IN  CASE data = "all" -> Known(None, None)
          [] HoursOf(data) # None -> Known(now - HoursOf(data) * TicksPerHour, None)
          [] LastDaysOf(data) # None ->
                Known(todayStart - (LastDaysOf(data) - 1) * TicksPerDay, None)
          [] data = "today" -> Known(todayStart, None)
          [] data = "yesterday" ->
                Known(todayStart - TicksPerDay, todayStart - Microsecond)
          [] data = "this week" -> Known(todayStart - Weekday(now) * TicksPerDay, None)
          [] data = "last week" ->
                Known(todayStart - (Weekday(now) + 7) * TicksPerDay,
                      todayStart - (Weekday(now) * TicksPerDay + Microsecond))
          [] data = "this month" ->
                Known(todayStart - (DayOfMonth(now) - 1) * TicksPerDay, None)
          [] data = "last month" ->
                Known(lastMonthDay - (DayOfMonth(lastMonthDay) - 1) * TicksPerDay,
                      todayStart - ((DayOfMonth(todayStart) - 1) * TicksPerDay + Microsecond))
          [] data = "this year" -> Known(0, None)
          [] data = "last year" -> Known(0 - DaysInLastYear * TicksPerDay, 0 - Microsecond)
          [] OTHER -> [known |-> FALSE, dateStart |-> None, dateEnd |-> None]

\* The handler makes the call named step.
Call(out, step) == [out EXCEPT !.calls = Append(@, step)]

\* plot(message, dateStart, dateEnd) on the files fs.  plotRecords fails
\* before it writes the image ("render") or while it writes it ("savefig").
plot(out, dateStart, dateEnd, failAt, fs) ==
    LET o1 == [Call(out, "reply_text") EXCEPT
                  !.replies = Append(@, Reply("plotting", failAt # "reply"))]
        o2 == [Call(o1, "getRecords") EXCEPT !.queried = TRUE]
        recs == getRecords(fs, dateStart, dateEnd)
        o3 == [Call(o2, "reply_text") EXCEPT
                  !.replies = Append(@, Reply("nodata", failAt # "reply2"))]
        o4 == Call(o2, "plotRecords")
        o5 == [o4 EXCEPT !.rendered = TRUE, !.image = TRUE]
        o6 == [Call(o5, "reply_photo") EXCEPT
                  !.replies = Append(@, Reply("photo", failAt # "photo"))]
        o7 == Call(o6, "os.remove")
    IN  IF failAt = "reply" THEN Raise(o1, "reply")
        ELSE IF failAt = "query" THEN Raise(o2, "query")
        ELSE IF Len(recs.recordList) = 0
        THEN (IF failAt = "reply2" THEN Raise(o3, "reply2") ELSE o3)
        ELSE IF failAt = "render" THEN Raise(o4, "render")
        ELSE IF failAt = "savefig" THEN Raise([o4 EXCEPT !.image = TRUE], "savefig")
        ELSE IF failAt = "photo" THEN Raise(o6, "photo")
        ELSE IF failAt = "remove" THEN Raise(o7, "remove")
        ELSE [o7 EXCEPT !.image = FALSE]

\* plotCallback answers the query only when the range was plotted.
plotCallbackAnswerLast(sender, data, failAt, now, fs) ==
    LET out == [NoEvent EXCEPT !.kind = "callback", !.sender = sender, !.data = data,
                               !.image = plotImage]
        range == Resolve(data, now)
        o1 == plot(out, range.dateStart, range.dateEnd, failAt, fs)
        o2 == [Call(out, "reply_text") EXCEPT
                  !.replies = Append(@, Reply("Unknown plot range", failAt # "reply"))]
    IN  IF range.known
        THEN (IF o1.raised THEN o1
              ELSE IF failAt = "answer" THEN Raise(Call(o1, "answer"), "answer")
              ELSE [Call(o1, "answer") EXCEPT !.answered = TRUE])
        ELSE IF failAt = "reply" THEN Raise(o2, "reply")
        ELSE o2

\* plotCallback for a callback query of sender with the token data.
plotCallback(sender, data, failAt, now, fs) ==
    LET out == [NoEvent EXCEPT !.kind = "callback", !.sender = sender, !.data = data,
                               !.image = plotImage]
        o0 == Call(out, "answer")
        o1 == [o0 EXCEPT !.answered = TRUE]
        range == Resolve(data, now)
        o2 == [Call(o1, "reply_text") EXCEPT
                  !.replies = Append(@, Reply("Unknown plot range", failAt # "reply"))]
    IN  IF failAt = "answer" THEN Raise(o0, "answer")
        ELSE IF range.known THEN plot(o1, range.dateStart, range.dateEnd, failAt, fs)
        ELSE IF failAt = "reply" THEN Raise(o2, "reply")
        ELSE o2

-----------------------------------------------------------------------------
(* SpecRange: time passes, and plotCallback resolves tokens at the present  *)
(* time: every weekday, at midnight, within the first second and in the     *)
(* last instant of the day.                                                 *)

\* The days the reference time runs through: a week.
RangeDays == 7

RangeTimes ==
    {d * TicksPerDay + t : d \in StartDay..(StartDay + RangeDays - 1),
                           t \in {0, SubSecond, TicksPerDay - Microsecond}}

RangeTokens == {"today", "yesterday", "this week", "last week"}

\* datetime.datetime.now() returns a later time.
TimePasses(now) ==
    /\ now > clock
    /\ clock' = now
    /\ resolved' = {}
    /\ UNCHANGED <<files, rolloverDay, appended, prunedDays, corrupted, query,
                   mainPc, startupTimeout, probeLog, startup, ownerAt, sent, isShuttingDown, threadStarted,
                   sigPc, sigNext, signals, exitCode, show, scan,
                   statVars, pollerVars, dispatchVars>>

\* plotCallback resolves the token data.
ResolveToken(data) ==
    /\ resolved' = resolved \cup
          {[data |-> data, now |-> clock, range |-> Resolve(data, clock)]}
    /\ UNCHANGED <<mainPc, startupTimeout, probeLog, startup, ownerAt, sent, isShuttingDown, threadStarted,
                   sigPc, sigNext, signals, exitCode, show, scan,
                   statVars, storeVars, pollerVars, dispatchVars>>

InitRange == StatIdle /\ StoreIdle /\ PollerIdle /\ DispatchIdle /\ LifeIdle

NextRange ==
    \/ \E now \in RangeTimes : TimePasses(now)
    \/ \E data \in RangeTokens : ResolveToken(data)

SpecRange == InitRange /\ [][NextRange]_vars

-----------------------------------------------------------------------------
(* SpecDispatch: the poller runs, the updater polls and dispatches text     *)
(* messages and callback queries to the handlers.  An exception that leaves *)
(* a handler ends in the dispatcher of the gateway library, which logs it   *)
(* and takes the next update.                                               *)

\* The events dispatched in a run.
MaxEvents == 3

TextInputs ==
    {Command(w) : w \in {"/start", "/show", "/plot", "/help", "hello"}}
        \cup {Text("/show", TRUE, 0, 1), Text("/show", FALSE, 1, 0)}

Tokens == {"all", "1h", "today", "yesterday", "next week"}

FailPoints ==
    {"none", "answer", "reply", "query", "reply2", "render", "savefig", "photo", "remove"}

\* updater.start_polling()
StartPolling ==
    /\ ~updaterRunning
    /\ updaterRunning' = TRUE
    /\ UNCHANGED <<plotImage, menus, ev, handled, crashes, statVars, storeVars, pollerVars,
                   lifeVars>>

\* The poller reads the sensor in time.
PollOk(temp, hum) ==
    /\ RowsWritten < MaxRows
    /\ PollIteration("ok", temp, hum, 0)
    /\ UNCHANGED <<stallStart, afterReads, polls>>

Dispatched(out) ==
    /\ ev' = out
    /\ handled' = handled + 1
    /\ crashes' = IF out.raised THEN crashes + 1 ELSE crashes
    /\ plotImage' = out.image
    /\ menus' = IF \E i \in 1..Len(out.replies) :
                      out.replies[i].text = "menu" /\ out.replies[i].delivered
                 THEN menus + 1 ELSE menus
    /\ UNCHANGED <<updaterRunning, statVars, storeVars, pollerVars, lifeVars>>

\* A text message arrives.
TextMessage(sender, text, fail) ==
    /\ updaterRunning
    /\ handled < MaxEvents
    /\ Dispatched(performCommand(sender, text, fail))

\* An update without a message (an edited message) arrives: performCommand returns.
UpdateWithoutMessage ==
    /\ updaterRunning
    /\ handled < MaxEvents
    /\ Dispatched([NoEvent EXCEPT !.kind = "no message", !.image = plotImage])

\* Someone presses a button of a range menu.
CallbackQuery(sender, data, failAt) ==
    /\ updaterRunning
    /\ handled < MaxEvents
    /\ menus > 0
    /\ Dispatched(plotCallback(sender, data, failAt, clock, files))

InitDispatch == StatIdle /\ StoreIdle /\ PollerIdle /\ DispatchIdle /\ LifeIdle

NextDispatch ==
    \/ StartPolling
    \/ ReadDHTStart
    \/ \E r \in {<<Num(1), Num(2)>>} : PollOk(r[1], r[2])
    \/ \E sender \in Senders, text \in TextInputs, fail \in BOOLEAN :
          TextMessage(sender, text, fail)
    \/ UpdateWithoutMessage
    \/ \E sender \in Senders, data \in Tokens, failAt \in FailPoints :
          CallbackQuery(sender, data, failAt)

SpecDispatch == InitDispatch /\ [][NextDispatch]_vars

-----------------------------------------------------------------------------
(* SpecShow: commandShow runs in the dispatcher's thread while the DHT      *)
(* thread publishes samples.  The two reads of self.lastRecord (the test    *)
(* against None and the assignment to record) are two steps, and the poller *)
(* may run before, between and after them.                                  *)

\* The fields of a record taken from two reads of self.lastRecord.
showRecordTorn(seen, published) == record(seen.ts, published.temp, published.hum)

\* The record commandShow formats: seen is self.lastRecord as the test
\* against None read it, published is self.lastRecord as line 276 reads it.
showRecord(seen, published) == published

ShowUnchanged ==
    UNCHANGED <<updaterRunning, plotImage, menus, crashes,
                mainPc, startupTimeout, probeLog, startup, ownerAt, sent, isShuttingDown, threadStarted,
                sigPc, sigNext, signals, exitCode, resolved, scan,
                statVars, storeVars, pollerVars>>

\* if self.lastRecord == None: reply 'No data yet.' and return
ShowCheck ==
    /\ updaterRunning
    /\ handled < MaxEvents
    /\ show.pc = "idle"
    /\ IF lastRecord = NoRecord
       THEN /\ ev' = [NoEvent EXCEPT !.kind = "text", !.sender = 1, !.data = "/show",
                                     !.readLast = TRUE, !.image = plotImage,
                                     !.replies = <<Reply("No data yet.", TRUE)>>,
                                     !.calls = <<"reply_text">>]
            /\ handled' = handled + 1
            /\ show' = NoShow
       ELSE /\ show' = [pc |-> "checked", seen |-> lastRecord]
            /\ UNCHANGED <<ev, handled>>
    /\ ShowUnchanged

\* record = self.lastRecord; reply with its timestamp, temperature and humidity
ShowReply ==
    /\ show.pc = "checked"
    /\ ev' = [NoEvent EXCEPT !.kind = "text", !.sender = 1, !.data = "/show",
                             !.readLast = TRUE, !.image = plotImage,
                             !.shown = showRecord(show.seen, lastRecord),
                             !.replies = <<Reply("record", TRUE)>>,
                             !.calls = <<"reply_text">>]
    /\ handled' = handled + 1
    /\ show' = NoShow
    /\ ShowUnchanged

\* The failed reads in a row.
MaxRetries == 2

\* A read of the sensor fails with a RuntimeError.
PollRuntimeError ==
    /\ pc = "loop"
    /\ clock < nextRead + MaxRetries * RetrySleep
    /\ PollIteration("RuntimeError", NaN, NaN, 0)
    /\ UNCHANGED <<stallStart, afterReads, polls>>

InitShow == StatIdle /\ StoreIdle /\ PollerIdle /\ DispatchIdle /\ LifeIdle

NextShow ==
    \/ StartPolling
    \/ ReadDHTStart
    \/ \E r \in Readings \ {<<NaN, NaN>>} : PollOk(r[1], r[2])
    \/ PollRuntimeError
    \/ ShowCheck
    \/ ShowReply

SpecShow == InitShow /\ [][NextShow]_vars

-----------------------------------------------------------------------------
(* SpecLife: run() from the start of the process to its exit.  The main     *)
(* thread probes the gateway, greets the owners, starts the DHT thread and  *)
(* the updater and watches the thread; signals arrive at any time and their *)
(* handler runs in the main thread, which stands still meanwhile; the       *)
(* sys.exit(1) of the handler raises SystemExit where the main thread was   *)
(* interrupted.  Every way out of runInternal is an exception, so the exit  *)
(* status of the process is 1.                                              *)

\* sys.maxsize (of a 32-bit build)
SysMaxsize == 2147483647

\* The values of general.startup_timeout.
StartupTimeouts == {-1, 0, 1, 2}

\* The probes a run of the model makes at most.
MaxProbes == 3

\* The signals a run of the model receives at most.
MaxSignals == 2

\* The probes range(timeout) allows: one more than configured.
ProbeLimitOffByOne(timeout) == IF timeout > 0 THEN timeout + 1 ELSE SysMaxsize

\* timeout if timeout > 0 else sys.maxsize
ProbeLimit(timeout) == IF timeout > 0 THEN timeout ELSE SysMaxsize

\* A bot.sendMessage call.
Message(kind, owner, ok) == [kind |-> kind, owner |-> owner, ok |-> ok]

MainRuns == sigPc = "none" /\ exitCode = None

LifeUnchanged == UNCHANGED <<show, resolved, scan, plotImage, menus, ev, handled, crashes,
                             statVars, storeVars, pollerVars>>

\* Logging, signal handlers, config.json, the recorder and the Updater object.
MainStart(timeout) ==
    /\ mainPc = "run" /\ MainRuns
    /\ mainPc' = "probe"
    /\ startupTimeout' = timeout
    /\ UNCHANGED <<probeLog, startup, ownerAt, sent, isShuttingDown, threadStarted, sigPc, sigNext,
                   signals, exitCode, updaterRunning>>
    /\ LifeUnchanged

\* One pass of the probing loop: bot.get_me() ends as outcome says.
Probe(outcome) ==
    /\ mainPc = "probe" /\ MainRuns
    /\ Len(probeLog) < ProbeLimit(startupTimeout)
    /\ Len(probeLog) < MaxProbes
    /\ probeLog' = Append(probeLog, outcome)
    /\ CASE outcome = "ok" ->
              /\ startup' = "ok" /\ mainPc' = "greet" /\ ownerAt' = 1
         [] outcome = "NetworkError" ->
              /\ UNCHANGED ownerAt
              /\ IF Len(probeLog') = ProbeLimit(startupTimeout)
                 THEN startup' = "timeout" /\ mainPc' = "cleanup"
                 ELSE UNCHANGED <<startup, mainPc>>
         [] outcome = "Unauthorized" ->
              /\ startup' = "unauthorized" /\ mainPc' = "cleanup" /\ UNCHANGED ownerAt
         [] OTHER ->
              /\ startup' = "error" /\ mainPc' = "cleanup" /\ UNCHANGED ownerAt
    /\ UNCHANGED <<startupTimeout, sent, isShuttingDown, threadStarted, sigPc, sigNext, signals,
                   exitCode, updaterRunning>>
    /\ LifeUnchanged

\* The main thread's loop over the owners has sent to the owner at ownerAt.
NextOwner(kind, ok, after) ==
    /\ sent' = Append(sent, Message(kind, OwnerList[ownerAt], ok))
    /\ IF ownerAt = Len(OwnerList)
       THEN mainPc' = after /\ ownerAt' = 1
       ELSE ownerAt' = ownerAt + 1 /\ UNCHANGED mainPc

\* 'Hello there, I'm back!' to the next owner; a failure is logged.
Greet(ok) ==
    /\ mainPc = "greet" /\ MainRuns
    /\ NextOwner("hello", ok, "startThread")
    /\ UNCHANGED <<startupTimeout, probeLog, startup, isShuttingDown, threadStarted, sigPc, sigNext,
                   signals, exitCode, updaterRunning>>
    /\ LifeUnchanged

\* dht_thread.start()
StartThread ==
    /\ mainPc = "startThread" /\ MainRuns
    /\ mainPc' = "register"
    /\ threadStarted' = TRUE
    /\ UNCHANGED <<startupTimeout, probeLog, startup, ownerAt, sent, isShuttingDown,
                   sigPc, sigNext, signals, exitCode, updaterRunning>>
    /\ LifeUnchanged

\* add_handler twice, updater.start_polling()
Register ==
    /\ mainPc = "register" /\ MainRuns
    /\ mainPc' = "supervise"
    /\ updaterRunning' = TRUE
    /\ UNCHANGED <<startupTimeout, probeLog, startup, ownerAt, sent, isShuttingDown, threadStarted,
                   sigPc, sigNext, signals, exitCode>>
    /\ LifeUnchanged

\* The liveness loop finds the DHT thread dead.
DetectDeath ==
    /\ mainPc = "supervise" /\ MainRuns
    /\ pc = "dead"
    /\ mainPc' = "deathNotify"
    /\ ownerAt' = 1
    /\ UNCHANGED <<startupTimeout, probeLog, startup, sent, isShuttingDown, threadStarted,
                   sigPc, sigNext, signals, exitCode, updaterRunning>>
    /\ LifeUnchanged

\* The first failed send ends the notification.
DeathNotifyStopOnFailure(ok) ==
    /\ mainPc = "deathNotify" /\ MainRuns
    /\ IF ok THEN NextOwner("death", ok, "cleanup")
       ELSE /\ sent' = Append(sent, Message("death", OwnerList[ownerAt], ok))
            /\ mainPc' = "cleanup" /\ ownerAt' = 1
    /\ UNCHANGED <<startupTimeout, probeLog, startup, isShuttingDown, threadStarted, sigPc, sigNext,
                   signals, exitCode, updaterRunning>>
    /\ LifeUnchanged

\* 'Thread "DHT" died, terminating now.' to the next owner; after the last
\* one sys.exit(1).
DeathNotify(ok) ==
    /\ mainPc = "deathNotify" /\ MainRuns
    /\ NextOwner("death", ok, "cleanup")
    /\ UNCHANGED <<startupTimeout, probeLog, startup, isShuttingDown, threadStarted, sigPc, sigNext,
                   signals, exitCode, updaterRunning>>
    /\ LifeUnchanged

\* cleanup(), called from the finally of run(); then the process exits.
Cleanup ==
    /\ mainPc = "cleanup" /\ MainRuns
    /\ releases' = IF dhtDevice # "none" THEN releases + 1 ELSE releases
    /\ updaterRunning' = FALSE
    /\ mainPc' = "exited"
    /\ exitCode' = 1
    /\ UNCHANGED <<startupTimeout, probeLog, startup, ownerAt, sent, isShuttingDown, threadStarted,
                   sigPc, sigNext, signals,
                   show, resolved, scan, plotImage, menus, ev, handled, crashes,
                   statVars, storeVars,
                   pc, nextRead, lastComplain, lastRecord, warnings, complaints,
                   startedAt, stallStart, afterReads, polls, dhtDevice>>

\* A termination signal is delivered: signalHandler starts in the main
\* thread, also while an earlier call of it is still running.
Signal ==
    /\ mainPc # "run" /\ exitCode = None
    /\ signals < MaxSignals
    /\ signals' = signals + 1
    /\ IF isShuttingDown
       THEN UNCHANGED <<isShuttingDown, sigPc, sigNext>>
       ELSE /\ isShuttingDown' = TRUE
            /\ sigPc' = IF updaterRunning THEN "notify" ELSE "exit"
            /\ sigNext' = 1
    /\ UNCHANGED <<mainPc, startupTimeout, probeLog, startup, ownerAt, sent, exitCode,
                   threadStarted, updaterRunning>>
    /\ LifeUnchanged

\* 'Caught signal ..., terminating now.' to the next owner; a failure is ignored.
SignalNotify(ok) ==
    /\ sigPc = "notify" /\ exitCode = None
    /\ sent' = Append(sent, Message("signal", OwnerList[sigNext], ok))
    /\ IF sigNext = Len(OwnerList)
       THEN sigPc' = "exit" /\ sigNext' = 1
       ELSE sigNext' = sigNext + 1 /\ UNCHANGED sigPc
    /\ UNCHANGED <<mainPc, startupTimeout, probeLog, startup, ownerAt, isShuttingDown, threadStarted,
                   signals, exitCode, updaterRunning>>
    /\ LifeUnchanged

\* The statements of the main thread that stand in a try with a bare except.
InBareExcept == {"greet", "deathNotify", "cleanup"}

\* sys.exit(1) at the end of signalHandler: SystemExit is raised where the
\* main thread was interrupted.  inTry says that this is inside a try whose
\* bare except catches it (the sendMessage of the greeting or of the death
\* notification, the calls of cleanup); released says whether a cleanup that
\* it ends had released the sensor already.
SignalExit(inTry, released) ==
    /\ sigPc = "exit" /\ exitCode = None
    /\ inTry => mainPc \in InBareExcept
    /\ released => (mainPc = "cleanup" /\ ~inTry /\ dhtDevice # "none")
    /\ sigPc' = "none"
    /\ CASE inTry /\ mainPc = "greet" ->
              /\ NextOwner("hello", FALSE, "startThread")
              /\ UNCHANGED <<exitCode, releases>>
         [] inTry /\ mainPc = "deathNotify" ->
              /\ NextOwner("death", FALSE, "cleanup")
              /\ UNCHANGED <<exitCode, releases>>
         [] inTry /\ mainPc = "cleanup" ->
              UNCHANGED <<mainPc, ownerAt, sent, exitCode, releases>>
         [] ~inTry /\ mainPc = "cleanup" ->
              /\ mainPc' = "exited"
              /\ exitCode' = 1
              /\ releases' = IF released THEN releases + 1 ELSE releases
              /\ UNCHANGED <<ownerAt, sent>>
         [] OTHER ->
              /\ mainPc' = "cleanup"
              /\ UNCHANGED <<ownerAt, sent, exitCode, releases>>
    /\ UNCHANGED <<startupTimeout, probeLog, startup, isShuttingDown, threadStarted, sigNext, signals,
                   updaterRunning,
                   show, resolved, scan, plotImage, menus, ev, handled, crashes,
                   statVars, storeVars,
                   pc, nextRead, lastComplain, lastRecord, warnings, complaints,
                   startedAt, stallStart, afterReads, polls, dhtDevice>>

\* The DHT thread runs from dht_thread.start() to the exit of the process.
ThreadRuns == threadStarted /\ exitCode = None

ThreadStart == ThreadRuns /\ ReadDHTStart

\* dht.type is neither DHT11 nor DHT22: sys.exit(1) ends the thread.
ThreadInvalidSensor ==
    /\ ThreadRuns
    /\ pc = "idle"
    /\ pc' = "dead"
    /\ UNCHANGED <<nextRead, lastComplain, lastRecord, warnings, complaints, startedAt,
                   stallStart, afterReads, polls, dhtDevice, releases,
                   statVars, storeVars, dispatchVars, lifeVars>>

ThreadReads == ThreadRuns /\ PollOk(Num(1), Num(2))

\* A read raises an exception that is not a RuntimeError: dhtDevice.exit(), raise.
ThreadDies ==
    /\ ThreadRuns
    /\ PollIteration("fatal", NaN, NaN, 0)
    /\ UNCHANGED <<stallStart, afterReads, polls>>

ProbeOutcomes == {"ok", "NetworkError", "Unauthorized", "other"}

MainStep ==
    \/ \E timeout \in StartupTimeouts : MainStart(timeout)
    \/ \E outcome \in ProbeOutcomes : Probe(outcome)
    \/ \E ok \in BOOLEAN : Greet(ok)
    \/ StartThread
    \/ Register
    \/ DetectDeath
    \/ \E ok \in BOOLEAN : DeathNotify(ok)
    \/ Cleanup

SignalStep ==
    \/ \E ok \in BOOLEAN : SignalNotify(ok)
    \/ \E inTry, released \in BOOLEAN : SignalExit(inTry, released)

ThreadStep ==
    \/ ThreadStart
    \/ ThreadInvalidSensor
    \/ ThreadReads
    \/ ThreadDies

InitLife == StatIdle /\ StoreIdle /\ PollerIdle /\ DispatchIdle /\ LifeIdle

NextLife == MainStep \/ Signal \/ SignalStep \/ ThreadStep

SpecLife == InitLife /\ [][NextLife]_vars

\* The main thread is scheduled again and again, its sleeps and its gateway
\* calls return, and so do those of a running signal handler.
SpecLifeFair == SpecLife /\ WF_vars(MainStep) /\ WF_vars(SignalStep)

-----------------------------------------------------------------------------
(* Claims about the statistics (SpecStat) *)

Values(list, field) == [i \in 1..Len(list) |-> list[i][field]]

\* The indices of the samples that carry a real value in the field.
RealAt(list, field) == {i \in 1..Len(list) : list[i][field].k = "num"}

\* stat holds the true extrema of the real values of the field, each with the
\* timestamp of the first sample added that attains it.
TrueExtrema(stat, list, field) ==
    LET real == RealAt(list, field)
        firstMin == CHOOSE i \in real :
                        /\ \A j \in real : list[i][field].v <= list[j][field].v
                        /\ \A j \in real : j < i => list[j][field].v > list[i][field].v
        firstMax == CHOOSE i \in real :
                        /\ \A j \in real : list[i][field].v >= list[j][field].v
                        /\ \A j \in real : j < i => list[j][field].v < list[i][field].v
    IN  IF real = {} THEN stat = recordStat
        ELSE /\ stat.minValue = list[firstMin][field]
             /\ stat.minTs = list[firstMin].ts
             /\ stat.maxValue = list[firstMax][field]
             /\ stat.maxTs = list[firstMax].ts

\* C3: after any sequence of addSingleRecord calls on a fresh record set, tempStat
\* and humStat hold the minimum and maximum of the non-NaN values added, and
\* minTs / maxTs are the timestamps of the first sample added that attains them.
C3_SingleRecordExtrema ==
    /\ TrueExtrema(shardRecords.tempStat, shardRecords.recordList, "temp")
    /\ TrueExtrema(shardRecords.humStat, shardRecords.recordList, "hum")

\* C3 witness: two samples with the same temperature and different timestamps
\* have been added, after a gap marker, and that temperature is the maximum.
C3_Witness ==
    LET l == shardRecords.recordList
    IN  /\ Len(l) = 3
        /\ IsNaN(l[1].temp)
        /\ l[2].temp = l[3].temp /\ l[2].temp = Num(2)
        /\ l[2].ts # l[3].ts
        /\ shardRecords.tempStat.maxTs = l[2].ts

\* One tracker fed with every sample of the list.
RECURSIVE FoldSingle(_, _)
FoldSingle(rs, list) ==
    IF list = <<>> THEN rs ELSE FoldSingle(addSingleRecord(rs, Head(list)), Tail(list))

\* C4: merging the statistics of the shards, in shard order, gives the extrema
\* (values and timestamps) that one tracker gives when it is fed the samples of
\* all the shards, for shards whose values are real numbers or NaN.
C4_MergeEqualsSingleTracker ==
    LET one == FoldSingle(records, allRecords.recordList)
    IN  /\ allRecords.tempStat = one.tempStat
        /\ allRecords.humStat = one.humStat

\* The statistics of the record sets of one sample each.
SingleStats(field) ==
    {updateWithValue(recordStat, ts, r[field]) :
        ts \in 1..MaxStatTs, r \in {[temp |-> x[1], hum |-> x[2]] : x \in StatReadings}}

\* C19: merging statistics built from samples is order-independent and
\* associative: A merged into B and B merged into A have the same extremum
\* values and timestamps, and (A + B) + C = A + (B + C).
C19_MergeCommutesAndAssociates ==
    \A field \in {"tempStat", "humStat"} :
        LET A == allRecords[field]
            B == shardRecords[field]
        IN  (Len(allRecords.recordList) > 0 /\ Len(shardRecords.recordList) > 0) =>
                /\ updateWithRecordStat(A, B) = updateWithRecordStat(B, A)
                /\ \A C \in SingleStats(IF field = "tempStat" THEN "temp" ELSE "hum") :
                      updateWithRecordStat(updateWithRecordStat(A, B), C)
                          = updateWithRecordStat(A, updateWithRecordStat(B, C))

-----------------------------------------------------------------------------
(* Claims about the record store (Spec) *)

\* A sample as it reads back: the timestamp has lost its sub-second part.
Stored(rec) == [rec EXCEPT !.ts = (rec.ts \div TicksPerSec) * TicksPerSec]

\* The samples appended whose shard rotation has not deleted, as they read back.
Retained ==
    LET kept == SelectSeq(appended, LAMBDA a : a.day \notin prunedDays)
    IN  [i \in 1..Len(kept) |-> Stored(kept[i].rec)]

DayOfName(name) == CHOOSE d \in (StartDay - 1)..(MaxDay + 1) : DateStr(d) = name

\* C1: a query without bounds returns every sample appended and not pruned,
\* once and in the order appended; the files are listed with the rotated shards
\* in the order of their days and the current file last.
C1_UnboundedQueryReturnsAll ==
    (query.called /\ query.dateStart = None /\ query.dateEnd = None) =>
        LET l == query.listed
        IN  /\ query.result.recordList = Retained
            /\ l[Len(l)] = recordBaseName
            /\ {l[i] : i \in 1..Len(l)} = DOMAIN files
            /\ \A i \in 1..(Len(l) - 1) : l[i] # recordBaseName
            /\ \A i, j \in 1..(Len(l) - 1) : i < j => DayOfName(l[i]) < DayOfName(l[j])

\* C1 witness: an unbounded query after a shard has been pruned, over two
\* rotated shards and a current file that holds a sample.
C1_Witness ==
    /\ query.called /\ query.dateStart = None /\ query.dateEnd = None
    /\ prunedDays # {}
    /\ Len(query.listed) = 3
    /\ files[recordBaseName] # <<>>
    /\ Len(query.result.recordList) >= 2

\* The rows of all files, the shards in the order of their days.
RECURSIVE RowsFrom(_)
RowsFrom(d) ==
    IF d > MaxDay + 1 THEN files[recordBaseName]
    ELSE (IF DateStr(d) \in DOMAIN files THEN files[DateStr(d)] ELSE <<>>) \o RowsFrom(d + 1)

AllRows == RowsFrom(StartDay - 1)

WellFormed(row) ==
    /\ Len(row) = 4
    /\ row[1].k = "date" /\ row[2].k = "time"
    /\ row[3].k \in {"num", "nan", "inf"} /\ row[4].k \in {"num", "nan", "inf"}

RowTs(row) == row[1].v * TicksPerDay + row[2].v * TicksPerSec

InRange(ts, dateStart, dateEnd) ==
    /\ dateStart = None \/ dateStart <= ts
    /\ dateEnd = None \/ ts <= dateEnd

\* The well-formed rows within the bounds, in stored order, as records.
RowsInRange(dateStart, dateEnd) ==
    LET rows == SelectSeq(AllRows,
                    LAMBDA r : WellFormed(r) /\ InRange(RowTs(r), dateStart, dateEnd))
    IN  [i \in 1..Len(rows) |-> record(RowTs(rows[i]), rows[i][3], rows[i][4])]

\* C2: getRecords(start, end) returns exactly the well-formed stored samples
\* with start <= ts <= end, both bounds inclusive and None unbounded, in stored
\* order.
C2_RangeInclusive ==
    query.called => query.result.recordList = RowsInRange(query.dateStart, query.dateEnd)

\* C2 witness: a query with both bounds that returns a sample at its start and a
\* sample at its end, and leaves a stored sample out.
C2_Witness ==
    LET l == query.result.recordList
    IN  /\ query.called /\ query.dateStart # None /\ query.dateEnd # None
        /\ \E i \in 1..Len(l) : l[i].ts = query.dateStart
        /\ \E i \in 1..Len(l) : l[i].ts = query.dateEnd
        /\ Len(l) < Len(RowsInRange(None, None))

\* C5: when the result of a query holds a real sample, the gap markers appended
\* (retained, within the bounds) are in the record list, and each extremum
\* reported for temperature and humidity is the value and the timestamp of a
\* real sample of the result.
ReportedFrom(list, field, value, ts) ==
    \E i \in 1..Len(list) : list[i][field].k = "num" /\ list[i][field] = value /\ list[i].ts = ts

C5_ExtremaOfRealSamples ==
    LET l == query.result.recordList
        t == query.result.tempStat
        h == query.result.humStat
    IN  (query.called /\ RealAt(l, "temp") # {} /\ RealAt(l, "hum") # {}) =>
            /\ \A i \in 1..Len(Retained) :
                  (IsNaN(Retained[i].temp)
                     /\ InRange(Retained[i].ts, query.dateStart, query.dateEnd))
                  => \E j \in 1..Len(l) : l[j] = Retained[i]
            /\ ReportedFrom(l, "temp", t.minValue, t.minTs)
            /\ ReportedFrom(l, "temp", t.maxValue, t.maxTs)
            /\ ReportedFrom(l, "hum", h.minValue, h.minTs)
            /\ ReportedFrom(l, "hum", h.maxValue, h.maxTs)

\* The rows of all files that readRecords logs as failed for the bounds: those
\* it cannot split or date, and those within the bounds with a field that is no
\* number.
FailedRows(dateStart, dateEnd) ==
    SelectSeq(AllRows,
        LAMBDA r : \/ Len(r) # 4
                   \/ r[1].k # "date" \/ r[2].k # "time"
                   \/ (InRange(RowTs(r), dateStart, dateEnd) /\ ~WellFormed(r)))

-----------------------------------------------------------------------------
(* Claims about the polling loop (SpecStall) *)

\* The gap markers the loop has written within the ten minutes of the stall.
StallMarkers ==
    SelectSeq(complaints, LAMBDA t : stallStart <= t /\ t <= stallStart + StallTicks)

-----------------------------------------------------------------------------
(* Claims about the dispatcher (SpecDispatch) *)

ReplyTexts(e) == {e.replies[i].text : i \in 1..Len(e.replies)}

Unauthorized(e) == e.sender \notin OwnerIds

\* C8: a text message of a sender outside owner_ids gets exactly one reply
\* call, the refusal, and nothing else is done for it: whatever the command,
\* lastRecord is not read, no menu is sent, no store query runs and no chart
\* is rendered.  The reply reaches the sender unless the gateway call raised.
C8_UnauthorizedTextRefused ==
    (ev.kind = "text" /\ Unauthorized(ev)) =>
        /\ Len(ev.replies) = 1
        /\ ev.replies[1].text = "refusal"
        /\ ev.replies[1].delivered = ~ev.raised
        /\ ~ev.readLast /\ ev.shown = NoRecord
        /\ ~ev.queried /\ ~ev.rendered /\ ~ev.answered

\* A stranger has sent /show while a sample is published, and was answered.
C8_Witness ==
    /\ ev.kind = "text" /\ Unauthorized(ev) /\ ev.data = "/show"
    /\ lastRecord # NoRecord /\ ~ev.raised

\* C9: a range-selection callback of a sender outside owner_ids causes no
\* store query, no chart and no data reply.
C9_UnauthorizedCallbackRefused ==
    (ev.kind = "callback" /\ Unauthorized(ev)) =>
        /\ ~ev.queried /\ ~ev.rendered
        /\ ReplyTexts(ev) \cap {"plotting", "nodata", "photo"} = {}

\* C10: an exception raised while a text command or a callback is handled is
\* caught by the handler and the sender gets a generic error reply.
C10_ExceptionAnsweredWithError ==
    ev.raised => \E i \in 1..Len(ev.replies) :
                    ev.replies[i].text = "error" /\ ev.replies[i].delivered

\* C17: plotCallback acknowledges the callback query (query.answer) exactly
\* once, as the first call of the handler, before the range is resolved, the
\* store is queried or a reply is sent, for every token and whatever the
\* later calls do.
C17_AnsweredFirstAndOnce ==
    ev.kind = "callback" =>
        /\ Len(ev.calls) >= 1
        /\ ev.calls[1] = "answer"
        /\ \A i \in 2..Len(ev.calls) : ev.calls[i] # "answer"
        /\ ev.answered = (ev.failAt # "answer")

\* A callback was answered, the chart was rendered and sending the photo failed.
C17_Witness ==
    /\ ev.kind = "callback" /\ ev.answered /\ ev.raised /\ ev.failAt = "photo"
    /\ ev.calls = <<"answer", "reply_text", "getRecords", "plotRecords", "reply_photo">>

\* C18: when the handling of a range-selection callback has ended, however it
\* ended, no image is left at plotImagePath, and for an empty record set no
\* chart is rendered.
C18_NoImageAfterCallback ==
    ev.kind = "callback" =>
        /\ ~plotImage
        /\ ("nodata" \in ReplyTexts(ev) => ~ev.rendered)

-----------------------------------------------------------------------------
(* Claims about the ranges (SpecRange) *)

\* The timestamp ts is within the range, as readRecords tests it.
Within(ts, range) ==
    /\ (range.dateStart # None => ts >= range.dateStart)
    /\ (range.dateEnd # None => ts <= range.dateEnd)

\* The range a ends one microsecond before the range b starts, and a sample
\* from the start of a on is in exactly one of the two.
Adjacent(a, b) ==
    /\ a.dateEnd + Microsecond = b.dateStart
    /\ \A ts \in {a.dateStart, a.dateEnd, b.dateStart, b.dateStart + Microsecond} :
          Within(ts, a) # Within(ts, b)

\* C16: for every reference time now, end('yesterday') + 1 microsecond =
\* start('today') and end('last week') + 1 microsecond = start('this week'),
\* the weeks start on a Monday (the last one not after now), and a sample is
\* in exactly one of two adjacent ranges.
C16_RangesAdjacent ==
    \A a, b \in resolved :
        /\ (a.data = "yesterday" /\ b.data = "today") =>
              /\ a.range.known /\ b.range.known
              /\ Adjacent(a.range, b.range)
              /\ b.range.dateStart = TodayStart(b.now)
              /\ a.range.dateStart = b.range.dateStart - TicksPerDay
        /\ (a.data = "last week" /\ b.data = "this week") =>
              /\ a.range.known /\ b.range.known
              /\ Adjacent(a.range, b.range)
              /\ b.range.dateStart % (7 * TicksPerDay) = 0
              /\ b.range.dateStart <= b.now
              /\ b.now < b.range.dateStart + 7 * TicksPerDay
              /\ a.range.dateStart = b.range.dateStart - 7 * TicksPerDay

\* The four tokens were resolved in the last instant of a day that is not a Monday.
C16_Witness ==
    /\ {r.data : r \in resolved} = RangeTokens
    /\ Weekday(clock) # 0
    /\ clock % TicksPerDay = TicksPerDay - Microsecond

-----------------------------------------------------------------------------
(* Claims about /show and the poller (SpecShow) *)

\* The samples the poller has read successfully in this run.
ReadSamples ==
    {appended[i].rec : i \in {j \in 2..Len(appended) : ~IsNaN(appended[j].rec.temp)}}

ShowReplied(e) == e.kind = "text" /\ e.data = "/show"

\* C15: a /show handled while the poller runs replies 'No data yet.' only
\* while no sample is published, and else the timestamp, temperature and
\* humidity of one sample, the one published at the moment line 276 reads
\* self.lastRecord: a successfully read sample, never a gap marker and never
\* fields of two samples; once a sample is published no reply is 'No data yet.'.
C15_ShowOneSample ==
    /\ [](ShowReplied(ev) /\ "record" \in ReplyTexts(ev) =>
             /\ ev.shown \in ReadSamples
             /\ ~IsNaN(ev.shown.temp) /\ ~IsNaN(ev.shown.hum))
    /\ [](ShowReplied(ev) /\ "No data yet." \in ReplyTexts(ev) => ev.shown = NoRecord)
    /\ [][(handled' = handled + 1 /\ ShowReplied(ev')) =>
             IF lastRecord = NoRecord
             THEN ReplyTexts(ev') = {"No data yet."}
             ELSE ReplyTexts(ev') = {"record"} /\ ev'.shown = lastRecord]_vars

\* The poller published a second sample between the two reads of a /show, and
\* the reply shows that second sample.
C15_Witness ==
    /\ ShowReplied(ev) /\ "record" \in ReplyTexts(ev)
    /\ Cardinality(ReadSamples) = 2
    /\ ev.shown = lastRecord
    /\ \E r \in ReadSamples : r.ts < ev.shown.ts /\ r.temp # ev.shown.temp

-----------------------------------------------------------------------------
(* Claims about the life of the process (SpecLife, SpecLifeFair) *)

\* The messages of a kind that were sent, in order.
Sent(kind) == SelectSeq(sent, LAMBDA msg : msg.kind = kind)

Owners(msgs) == [i \in 1..Len(msgs) |-> msgs[i].owner]

Exited == mainPc = "exited"

\* C11: when the poller thread has ended, the liveness loop detects it, tries
\* to notify every owner (a failed send does not stop the sends to the owners
\* after it) and the process exits with a non-zero status.  A process that a
\* signal ends first exits through signalHandler instead.
C11_PollerDeathEndsProcess ==
    /\ [](Exited /\ pc = "dead" /\ ~isShuttingDown => Owners(Sent("death")) = OwnerList)
    /\ [](mainPc = "deathNotify" =>
             Owners(Sent("death")) = SubSeq(OwnerList, 1, Len(Sent("death"))))
    /\ (pc = "dead") ~> (Exited /\ exitCode # None /\ exitCode # 0)

\* The thread died, the send to the first owner failed, the second owner was
\* notified, and the process has exited.
C11_Witness ==
    /\ Exited /\ pc = "dead" /\ ~isShuttingDown
    /\ Len(Sent("death")) = 2
    /\ ~Sent("death")[1].ok /\ Sent("death")[2].ok
    /\ exitCode = 1

\* C12: after a startup authentication failure and after a startup timeout
\* every owner has been sent a notification when the process exits, and the
\* exit status is not zero.
C12_StartupFailureNotifies ==
    (Exited /\ startup \in {"unauthorized", "timeout"}) =>
        /\ \A o \in OwnerIds : \E i \in 1..Len(sent) : sent[i].owner = o
        /\ exitCode # 0

\* C13: the first signal sets isShuttingDown, notifies each owner at most once
\* and makes the process exit with a non-zero status; later signals send
\* nothing.
C13_ShutdownExactlyOnce ==
    /\ Len(Sent("signal")) <= Len(OwnerList)
    /\ Owners(Sent("signal")) = SubSeq(OwnerList, 1, Len(Sent("signal")))
    /\ (signals > 0 => isShuttingDown)
    /\ (isShuttingDown /\ sigPc = "none") => mainPc \in {"cleanup", "exited"}
    /\ (Exited => exitCode # 0)

AllNetworkErrors == \A i \in 1..Len(probeLog) : probeLog[i] = "NetworkError"

ProbingFailed == startup \in {"timeout", "unauthorized", "error"}

\* C14: with startup_timeout = T > 0 at most T probes are made; a network
\* error leads to the next probe, a success and any other error end the
\* probing at once; when no probe succeeded the process exits with a non-zero
\* status without greeting, starting the poller or registering the handlers;
\* with T <= 0 the probing ends only by a success or a non-network error.
C14_ProbingBounded ==
    /\ (mainPc # "run" /\ startupTimeout > 0) => Len(probeLog) <= startupTimeout
    /\ \A i \in 1..(Len(probeLog) - 1) : probeLog[i] = "NetworkError"
    /\ (startup = "probing") => AllNetworkErrors
    /\ (startup = "ok") <=> (probeLog # <<>> /\ probeLog[Len(probeLog)] = "ok")
    /\ (startup = "unauthorized") <=>
           (probeLog # <<>> /\ probeLog[Len(probeLog)] = "Unauthorized")
    /\ (startup = "error") <=> (probeLog # <<>> /\ probeLog[Len(probeLog)] = "other")
    /\ (startup = "timeout") <=>
           (startupTimeout > 0 /\ Len(probeLog) = startupTimeout /\ AllNetworkErrors)
    /\ ProbingFailed => mainPc \in {"cleanup", "exited"}
    /\ (startup # "ok") =>
           /\ Sent("hello") = <<>>
           /\ pc = "idle" /\ dhtDevice = "none"
           /\ ~updaterRunning
    /\ (Exited => exitCode = 1)
    /\ (startupTimeout <= 0 /\ mainPc \in {"cleanup", "exited"} /\ ~isShuttingDown
           /\ startup # "ok") => startup \in {"unauthorized", "error"}

\* Two probes failed with a network error, startup_timeout is 2, and the
\* process has exited.
C14_Witness ==
    /\ Exited /\ startup = "timeout" /\ startupTimeout = 2
    /\ probeLog = <<"NetworkError", "NetworkError">>
    /\ exitCode = 1

\* C20: in every run the sensor handle is released (dhtDevice.exit) exactly once.
C20_ReleasedExactlyOnce ==
    /\ releases <= 1
    /\ (Exited /\ dhtDevice # "none") => releases = 1

-----------------------------------------------------------------------------
(* Claims about one run of the polling loop (SpecPoll) *)

\* The rows this run has handed to the store: the sample of the earlier run
\* comes first in the history.
RunRows == SubSeq(appended, 2, Len(appended))

IsMarker(rec) == rec.temp = NaN /\ rec.hum = NaN

\* The number of samples in a history of rows: one for every successful read.
SampleRows(rows) == Len(SelectSeq(rows, LAMBDA e : ~IsMarker(e.rec)))

\* The timestamps of the gap markers of this run, the start-up marker first.
MarkerTimes ==
    LET markers == SelectSeq(RunRows, LAMBDA e : IsMarker(e.rec))
    IN  [i \in 1..Len(markers) |-> markers[i].rec.ts]

\* A pass of the loop has been made in this step.
PassMade == polls' = polls + 1

\* C21: at every point of the loop nextRead is its initial value plus
\* readInterval times the number of successful reads; a pass whose read fails
\* or is incomplete leaves nextRead alone; a pass whose read succeeds ends at
\* nextRead when the read was over before it, and at the end of the read (no
\* sleep) when nextRead was already due.
C21_DeadlineAccumulates ==
    /\ [](pc = "loop" => nextRead = startedAt + ReadInterval * SampleRows(RunRows))
    /\ [][PassMade =>
            IF SampleRows(appended') = SampleRows(appended)
            THEN nextRead' = nextRead
            ELSE /\ nextRead' = nextRead + ReadInterval
                 /\ \E d \in ReadDurations :
                       /\ clock + d < nextRead' => clock' = nextRead'
                       /\ clock + d >= nextRead' => clock' = clock + d]_vars

\* A failed read has blocked past the deadline, two reads have then run back
\* to back (their samples carry the same time), and the loop has slept until
\* the deadline that has caught up.
C21_Witness ==
    /\ pc = "loop"
    /\ polls > SampleRows(RunRows)
    /\ clock = nextRead
    /\ \E i \in 1..(Len(RunRows) - 1) :
          /\ ~IsMarker(RunRows[i].rec) /\ ~IsMarker(RunRows[i + 1].rec)
          /\ RunRows[i].rec.ts = RunRows[i + 1].rec.ts
          /\ RunRows[i + 1].rec.ts < clock

\* The timestamps of the gap markers as the record files hold them, read back
\* by getRecords: the rows are written to the second.
WrittenMarkerTimes ==
    LET markers == SelectSeq(getRecords(files, None, None).recordList, IsMarker)
    IN  [i \in 1..Len(markers) |-> markers[i].ts]

\* C23: any two gap markers of a run, the start-up marker included, have
\* timestamps more than 5 minutes apart (as written to the second: not less
\* than 5 minutes apart), whatever the reads do; and a pass of the loop writes
\* a gap marker only when now is later than nextRead + readInterval.
C23_MarkersFiveMinutesApart ==
    /\ [](/\ \A i, j \in DOMAIN MarkerTimes :
                i < j => MarkerTimes[j] - MarkerTimes[i] > ComplainTicks
          /\ Len(WrittenMarkerTimes) = Len(MarkerTimes)
          /\ \A i, j \in DOMAIN WrittenMarkerTimes :
                i < j => WrittenMarkerTimes[j] - WrittenMarkerTimes[i] >= ComplainTicks)
    /\ [][(PassMade /\ Len(MarkerTimes') > Len(MarkerTimes)) =>
             /\ clock > nextRead + ReadInterval
             /\ Len(MarkerTimes') = Len(MarkerTimes) + 1
             /\ MarkerTimes'[Len(MarkerTimes')] = clock]_vars

\* Reads have blocked twice for five minutes: the run has written its start-up
\* marker and two markers in the loop, the last one in a pass whose read
\* succeeded.
C23_Witness ==
    /\ Len(MarkerTimes) = 3
    /\ SampleRows(RunRows) >= 1
    /\ lastRecord.ts = MarkerTimes[3]

IsPrefix(a, b) == Len(a) <= Len(b) /\ SubSeq(b, 1, Len(a)) = a

NonDecreasing(ts) == \A i, j \in DOMAIN ts : i < j => ts[i] <= ts[j]

\* A step of the polling thread: its set-up or a pass of its loop.
PollerStep == ReadDHTStart \/ \E o \in ReadOutcomes, d \in ReadDurations : PollPass(o, d)

\* C24: in a run of the poller the rows of the store are only ever appended
\* to, in the history and in the files; the timestamps of the rows never
\* decrease, as handed to the store and as read back from the files; a pass
\* whose read succeeds appends exactly one sample row and a pass whose read
\* fails appends none (a gap marker the pass may write before the read is a
\* row of its own); and only steps of the poller change the files.
C24_AppendOnlyMonotonic ==
    /\ [](/\ NonDecreasing([i \in DOMAIN RunRows |-> RunRows[i].rec.ts])
          /\ LET back == getRecords(files, None, None).recordList
             IN  /\ Len(back) = Len(appended)
                 /\ NonDecreasing([i \in DOMAIN back |-> back[i].ts]))
    /\ [][/\ IsPrefix(appended, appended')
          /\ rolloverDay' = rolloverDay =>
                \A n \in DOMAIN files :
                    n \in DOMAIN files' /\ IsPrefix(files[n], files'[n])
          /\ \A o \in ReadOutcomes, d \in ReadDurations :
                PollPass(o, d) =>
                    /\ SampleRows(appended') - SampleRows(appended)
                           = IF o = "ok" THEN 1 ELSE 0
                    /\ Len(appended') - Len(appended)
                           = (IF o = "ok" THEN 1 ELSE 0)
                             + (IF ShouldComplain(clock, nextRead, lastComplain)
                                THEN 1 ELSE 0)
                    /\ Len(files'[recordBaseName]) - Len(files[recordBaseName])
                           = Len(appended') - Len(appended)
          /\ files' # files => PollerStep]_vars

\* A run with a sample, a failed read after it, a gap marker and a sample in
\* one pass, all in the current file, and a query of a handler made since.
C24_Witness ==
    /\ query.called
    /\ polls >= 3
    /\ polls > SampleRows(RunRows)
    /\ Len(files[recordBaseName]) = Len(RunRows)
    /\ \E i \in 1..(Len(RunRows) - 1) :
          /\ i > 1 /\ ~IsMarker(RunRows[i - 1].rec)
          /\ IsMarker(RunRows[i].rec) /\ ~IsMarker(RunRows[i + 1].rec)
          /\ RunRows[i].rec.ts = RunRows[i + 1].rec.ts

-----------------------------------------------------------------------------
(* Claims about a query that races with the rotation (SpecRace) *)

\* A sample as a query returns it: its timestamp written and read back.
ReadBack(rec) ==
    LET row == RecordLine(rec) IN record(strptime(row[1], row[2]), row[3], row[4])

RECURSIVE TotalRows(_, _)
TotalRows(fs, names) ==
    IF names = {} THEN 0
    ELSE LET n == CHOOSE x \in names : TRUE
         IN  Len(fs[n]) + TotalRows(fs, names \ {n})

\* The place in the history of the oldest sample the files still hold.
KeptFrom == Len(appended) - TotalRows(files, DOMAIN files) + 1

\* How often a sample occurs among the places idx of the history.
StoredAt(x, idx) == Cardinality({i \in idx : ReadBack(appended[i].rec) = x})

Returned(x) ==
    Cardinality({k \in DOMAIN scan.all.recordList : scan.all.recordList[k] = x})

\* C22, as claimed: a query that a rotation interleaves with does not raise,
\* and when it is done it has returned every sample that was in the store when
\* the files were listed and is still retained, as often as the store holds it
\* and no sample more often than it was ever stored.
C22_QueryAcrossRotation ==
    /\ scan.pc # "raised"
    /\ scan.pc = "done" =>
          /\ \A i \in KeptFrom..scan.upTo :
                Returned(ReadBack(appended[i].rec))
                    >= StoredAt(ReadBack(appended[i].rec), KeptFrom..scan.upTo)
          /\ \A k \in DOMAIN scan.all.recordList :
                Returned(scan.all.recordList[k])
                    <= StoredAt(scan.all.recordList[k], DOMAIN appended)

====
